---- MODULE Spec2Model ----
(***************************************************************************)
(* PostsScreen (src/app/screens/PostsScreen.tsx): a React function         *)
(* component that fetches a list of posts, filters it by a debounced       *)
(* search text and persists the search text in AsyncStorage.               *)
(*                                                                         *)
(* JavaScript runs every handler to its next await without interruption,   *)
(* so each action below is one such segment followed by the re-render it   *)
(* causes (the effects whose dependencies changed run in the same action). *)
(* A closure sees the state of the render that created it: the values a    *)
(* closure captured are carried in the record of the timer, of the pending *)
(* store operation or of the fetchPosts invocation that holds it.          *)
(*                                                                         *)
(* Collaborators: NetInfo.fetch() answers connected / not connected;       *)
(* fetch() answers ok, a non-ok status, or rejects; response.json() yields *)
(* a Post[] or rejects; AsyncStorage serves getItem/setItem one at a time  *)
(* in the order they were issued and does not fail.                        *)
(*                                                                         *)
(* Time is counted in ticks of 100 ms; a timer fires when it is due.       *)
(***************************************************************************)
EXTENDS Integers, Sequences, FiniteSets, TLC

\* ------------------------------------------------------------------ bounds
MaxFetch == 2       \* fetchPosts invocations in one behaviour
MaxEdits == 2       \* edits of the search box in one behaviour
MaxSessions == 2    \* application starts in one behaviour
MaxLen == 2         \* length of the collections the filter is tried on

\* setTimeout(..., 300): three ticks of 100 ms
DebounceTicks == 3

\* ------------------------------------------------------------------ text
\* A string is a sequence of one-character strings.
Empty == <<>>
Alpha == <<"a", "l", "p", "h", "a">>
Bet == <<"B", "E", "T">>

UpperToLower ==
  [c \in {"A", "B", "E", "H", "L", "P", "T"} |->
     CASE c = "A" -> "a" [] c = "B" -> "b" [] c = "E" -> "e" [] c = "H" -> "h"
       [] c = "L" -> "l" [] c = "P" -> "p" [] c = "T" -> "t"]

\* String.prototype.toLowerCase, one character
LowerChar(c) == IF c \in DOMAIN UpperToLower THEN UpperToLower[c] ELSE c

\* String.prototype.toLowerCase
ToLowerCase(s) == [i \in 1..Len(s) |-> LowerChar(s[i])]

\* String.prototype.includes: needle occurs in hay at some offset
Includes(hay, needle) ==
  \E off \in 0..(Len(hay) - Len(needle)) :
     SubSeq(hay, off + 1, off + Len(needle)) = needle

\* the predicate of both filters:
\*   post.title.toLowerCase().includes(search.toLowerCase())
TitleMatches(post, s) == Includes(ToLowerCase(post.title), ToLowerCase(s))

\* posts.filter(post => post.title.toLowerCase().includes(search.toLowerCase()))
FilterKeepsCase(ps, s) == SelectSeq(ps, LAMBDA p : Includes(p.title, s))
FilterPosts(ps, s) == SelectSeq(ps, LAMBDA p : TitleMatches(p, s))

\* ------------------------------------------------------------------ data
Post(i, t) == [id |-> i, title |-> t]
P1 == Post(1, <<"A", "l", "p", "h", "a", " ", "p", "o", "s", "t">>)
P2 == Post(2, <<"B", "e", "t", "a">>)
P3 == Post(3, <<"A", "L", "P", "H", "A", "B", "E", "T">>)
DataA == <<P1, P2>>
DataB == <<P2, P3>>
\* the bodies response.json() can decode to
Payloads == {DataA, DataB}
\* the texts the user can put in the search box
Queries == {Empty, Alpha, Bet}
\* response.status of a response that is not ok
BadStatus == {404, 500}

VARIABLES
  posts,          \* useState([])       the fetched collection
  filteredPosts,  \* useState([])       the list shown
  search,         \* useState("")       the search text
  loading,        \* useState(true)
  refreshing,     \* useState(false)
  error,          \* useState("")       "", "offline", "server", "network"
  debounceTimer,  \* useRef(null)       the pending setTimeout and what its callback captured
  storeQ,         \* AsyncStorage operations issued and not yet served, oldest first
  store,          \* AsyncStorage item "searchText"
  inflight,       \* fetchPosts invocations that have not returned
  lastDone,       \* the fetchPosts invocation that returned last, and how,
                  \* until the next one starts
  sinceEdit,      \* ticks since the last change of the search text that no
                  \* timer has fired after yet (-1: there is none)
  nFetch,         \* fetchPosts invocations so far
  nEdits,         \* edits of the search box so far
  nSessions,      \* application starts so far
  mounted,        \* the component is mounted
  fC, fQ, fR      \* the filter tried on its own: collection, query, result

appVars == <<posts, filteredPosts, search, loading, refreshing, error>>
envVars == <<debounceTimer, storeQ, store, inflight, lastDone, sinceEdit>>
cntVars == <<nFetch, nEdits, nSessions, mounted>>
filterVars == <<fC, fQ, fR>>
vars == <<appVars, envVars, cntVars, filterVars>>

\* ------------------------------------------------------------ helpers
\* debounceTimer.current when no timeout is pending
NoTimer == [on |-> FALSE, search |-> Empty, posts |-> <<>>, age |-> 0]

\* the timer armed with a delay of 200 ms
DebounceEffectShortDelay(s, ps) ==
  [on |-> TRUE, search |-> s, posts |-> ps, age |-> 1]
\* the callback closing over the posts of the first render
DebounceEffectStalePosts(s, ps) ==
  [on |-> TRUE, search |-> s, posts |-> <<>>, age |-> 0]

\* The debounce effect (deps [search, posts]): clearTimeout of the pending
\* timer, then setTimeout(callback, 300); the callback closes over the
\* search and posts of the render that ran the effect.
DebounceEffect(s, ps) == [on |-> TRUE, search |-> s, posts |-> ps, age |-> 0]

\* AsyncStorage.getItem("searchText") / AsyncStorage.setItem("searchText", search)
GetItem == [op |-> "get", search |-> Empty, posts |-> <<>>]
SetItem(s, ps) == [op |-> "set", search |-> s, posts |-> ps]

Absent == [present |-> FALSE, value |-> Empty]
Stored(s) == [present |-> TRUE, value |-> s]

\* `if (saved)`: null and "" are falsy
TruthyWhenStored(item) == item.present
Truthy(item) == item.present /\ item.value # Empty

NoToast == <<>>
Toast(kind, status) == <<[kind |-> kind, status |-> status]>>

NotDone ==
  [id |-> 0, outcome |-> "none", trigger |-> "none", connected |-> FALSE,
   called |-> FALSE, status |-> 0, toasts |-> NoToast]

\* what is recorded of an invocation when it returns: the branch it took,
\* what the probe answered, whether fetch() was called, the response
\* status (0: no response) and the toasts it showed
Done(f, outcome, connected, status, toasts) ==
  [id |-> f.id, outcome |-> outcome, trigger |-> f.trigger,
   connected |-> connected, called |-> f.called, status |-> status,
   toasts |-> toasts]

\* the filter has not been applied to fC, fQ
NotApplied == [done |-> FALSE, out |-> <<>>]

\* ------------------------------------------------------------ start
\* The state after the first render and its three mount effects: loadSaved
\* has issued getItem, fetchPosts (closure of the first render: search "",
\* refreshing false) awaits NetInfo.fetch(), the debounce timer is set.
MountFetch(n) ==
  [id |-> n, pc |-> "probe", trigger |-> "mount", refreshing |-> FALSE,
   search |-> Empty, connected |-> FALSE, called |-> FALSE]

\* AsyncStorage holds nothing when the application is first started.
Init ==
  /\ posts = <<>>
  /\ filteredPosts = <<>>
  /\ search = Empty
  /\ loading = TRUE
  /\ refreshing = FALSE
  /\ error = ""
  /\ debounceTimer = DebounceEffect(Empty, <<>>)
  /\ storeQ = <<GetItem>>
  /\ store = Absent
  /\ inflight = {MountFetch(1)}
  /\ lastDone = NotDone
  /\ sinceEdit = -1
  /\ nFetch = 1
  /\ nEdits = 0
  /\ nSessions = 1
  /\ mounted = TRUE
  /\ fC = <<>> /\ fQ = Empty /\ fR = NotApplied

\* The application is started with "alpha" stored by an earlier session.
InitStored ==
  /\ posts = <<>>
  /\ filteredPosts = <<>>
  /\ search = Empty
  /\ loading = TRUE
  /\ refreshing = FALSE
  /\ error = ""
  /\ debounceTimer = DebounceEffect(Empty, <<>>)
  /\ storeQ = <<GetItem>>
  /\ store = Stored(Alpha)
  /\ inflight = {MountFetch(1)}
  /\ lastDone = NotDone
  /\ sinceEdit = -1
  /\ nFetch = 1
  /\ nEdits = 0
  /\ nSessions = 1
  /\ mounted = TRUE
  /\ fC = <<>> /\ fQ = Empty /\ fR = NotApplied

\* ------------------------------------------------------------ search box
\* TextInput onChangeText={setSearch}: the text changes, the component
\* renders again and the debounce effect restarts the timer.
EditSearch(q) ==
  /\ mounted
  /\ nEdits < MaxEdits
  /\ q # search
  /\ search' = q
  /\ debounceTimer' = DebounceEffect(q, posts)
  /\ sinceEdit' = 0
  /\ nEdits' = nEdits + 1
  /\ UNCHANGED <<posts, filteredPosts, loading, refreshing, error>>
  /\ UNCHANGED <<storeQ, store, inflight, lastDone, nFetch, nSessions, mounted>>
  /\ UNCHANGED filterVars

\* 100 ms pass. A due timer fires before more time passes.
Tick ==
  /\ ~(debounceTimer.on /\ debounceTimer.age = DebounceTicks)
  /\ debounceTimer.on
  /\ debounceTimer' = [debounceTimer EXCEPT !.age = @ + 1]
  /\ sinceEdit' = IF sinceEdit \in 0..DebounceTicks THEN sinceEdit + 1 ELSE sinceEdit
  /\ UNCHANGED <<appVars, storeQ, store, inflight, lastDone, cntVars, filterVars>>

\* The timeout callback starts: it issues setItem("searchText", search)
\* and awaits it.
TimerFires ==
  /\ debounceTimer.on
  /\ debounceTimer.age = DebounceTicks
  /\ storeQ' = Append(storeQ, SetItem(debounceTimer.search, debounceTimer.posts))
  /\ debounceTimer' = NoTimer
  /\ sinceEdit' = -1
  /\ UNCHANGED <<appVars, store, inflight, lastDone, cntVars, filterVars>>

\* setItem resolves: the value is stored and the callback goes on to
\* filter the posts it captured by the search it captured
\* (setFilteredPosts does nothing once the component is unmounted).
SetItemDone ==
  /\ storeQ # <<>>
  /\ Head(storeQ).op = "set"
  /\ store' = Stored(Head(storeQ).search)
  /\ filteredPosts' =
       IF mounted THEN FilterPosts(Head(storeQ).posts, Head(storeQ).search)
       ELSE filteredPosts
  /\ storeQ' = Tail(storeQ)
  /\ UNCHANGED <<posts, search, loading, refreshing, error>>
  /\ UNCHANGED <<debounceTimer, inflight, lastDone, sinceEdit, cntVars, filterVars>>

\* getItem resolves in loadSaved: `if (saved) setSearch(saved)`.
SearchAfterLoadIgnoresSaved(saved, s) == s
SearchAfterLoad(saved, s) == IF Truthy(saved) THEN saved.value ELSE s

GetItemDone ==
  /\ mounted
  /\ storeQ # <<>>
  /\ Head(storeQ).op = "get"
  /\ storeQ' = Tail(storeQ)
  /\ search' = SearchAfterLoad(store, search)
  /\ IF search' # search
       THEN debounceTimer' = DebounceEffect(search', posts) /\ sinceEdit' = 0
       ELSE UNCHANGED <<debounceTimer, sinceEdit>>
  /\ UNCHANGED <<posts, filteredPosts, loading, refreshing, error>>
  /\ UNCHANGED <<store, inflight, lastDone, cntVars, filterVars>>

\* ------------------------------------------------------------ fetchPosts
\* fetchPosts up to `await NetInfo.fetch()`, called from the current render:
\* setError(""); if (!refreshing) setLoading(true).
LoadingAtStartKept(capturedRefreshing, l) == l
LoadingAtStart(capturedRefreshing, l) == IF ~capturedRefreshing THEN TRUE ELSE l

\* setError("") at the start of fetchPosts
ErrorAtStartKept == error
ErrorAtStart == ""

StartFetch(trigger) ==
  /\ mounted
  /\ nFetch < MaxFetch
  /\ error' = ErrorAtStart
  /\ loading' = LoadingAtStart(refreshing, loading)
  /\ inflight' = inflight \cup
       {[id |-> nFetch + 1, pc |-> "probe", trigger |-> trigger,
         refreshing |-> refreshing, search |-> search, connected |-> FALSE,
         called |-> FALSE]}
  /\ lastDone' = NotDone
  /\ nFetch' = nFetch + 1

\* The Retry button of the three error views, rendered when
\* !loading && error === "offline" | "server" | "network".
Retry ==
  /\ ~loading
  /\ error \in {"offline", "server", "network"}
  /\ StartFetch("retry")
  /\ UNCHANGED <<posts, filteredPosts, search, refreshing>>
  /\ UNCHANGED <<debounceTimer, storeQ, store, sinceEdit>>
  /\ UNCHANGED <<nEdits, nSessions, mounted, filterVars>>

\* FlatList onRefresh={onRefresh}, rendered when !loading && !error:
\* setRefreshing(true); await fetchPosts() -- the fetchPosts of the render
\* that onRefresh belongs to, which still sees the old `refreshing`.
OnRefresh ==
  /\ ~loading
  /\ error = ""
  /\ refreshing' = TRUE
  /\ StartFetch("pull")
  /\ UNCHANGED <<posts, filteredPosts, search>>
  /\ UNCHANGED <<debounceTimer, storeQ, store, sinceEdit>>
  /\ UNCHANGED <<nEdits, nSessions, mounted, filterVars>>

\* `if (!net.isConnected)`
IsOfflineNever(connected) == FALSE
IsOffline(connected) == ~connected

\* setLoading(false); setRefreshing(false) -- the offline branch and `finally`
FlagSkipped(flag) == flag
FlagReset(flag) == FALSE

\* Toast.show of the three failure branches
ToastMissing(kind, status) == NoToast
FailureToast(kind, status) == Toast(kind, status)

\* no failure branch calls setPosts or setFilteredPosts
FailureClearsData == posts' = <<>> /\ filteredPosts' = <<>>
FailureKeepsData == UNCHANGED <<posts, filteredPosts>>

ReturnsAndRetries(f, outcome, connected, status, toasts) ==
  /\ inflight' =
       IF outcome \in {"offline", "server", "network"}
       THEN (inflight \ {f}) \cup
              {[f EXCEPT !.pc = "probe", !.connected = FALSE, !.called = FALSE]}
       ELSE inflight \ {f}
  /\ lastDone' = Done(f, outcome, connected, status, toasts)
Returns(f, outcome, connected, status, toasts) ==
  /\ inflight' = inflight \ {f}
  /\ lastDone' = Done(f, outcome, connected, status, toasts)

\* NetInfo.fetch() resolves.
ProbeResolves(f, connected) ==
  /\ f \in inflight
  /\ f.pc = "probe"
  /\ IF IsOffline(connected)
       THEN /\ loading' = FlagReset(loading)
            /\ refreshing' = FlagReset(refreshing)
            /\ error' = "offline"
            /\ FailureKeepsData
            /\ Returns(f, "offline", connected, 0, FailureToast("offline", 0))
       ELSE \* fetch("https://jsonplaceholder.typicode.com/posts") is called
            /\ inflight' = (inflight \ {f}) \cup
                 {[f EXCEPT !.pc = "remote", !.connected = connected,
                            !.called = TRUE]}
            /\ UNCHANGED <<posts, filteredPosts, loading, refreshing, error, lastDone>>
  /\ UNCHANGED <<search, debounceTimer, storeQ, store, sinceEdit, cntVars, filterVars>>

\* fetch() resolves with a response that is ok: response.json() is awaited.
ResponseOk(f) ==
  /\ f \in inflight
  /\ f.pc = "remote"
  /\ inflight' = (inflight \ {f}) \cup {[f EXCEPT !.pc = "json"]}
  /\ UNCHANGED <<appVars, debounceTimer, storeQ, store, lastDone, sinceEdit>>
  /\ UNCHANGED <<cntVars, filterVars>>

\* fetch() resolves with !response.ok: setError("server"), the toast with
\* the status, return through `finally`.
ResponseNotOk(f, status) ==
  /\ f \in inflight
  /\ f.pc = "remote"
  /\ error' = "server"
  /\ loading' = FlagReset(loading)
  /\ refreshing' = FlagReset(refreshing)
  /\ FailureKeepsData
  /\ Returns(f, "server", f.connected, status, FailureToast("server", status))
  /\ UNCHANGED <<search, debounceTimer, storeQ, store, sinceEdit, cntVars, filterVars>>

\* fetch() or response.json() rejects: the catch block, then `finally`.
Rejected(f) ==
  /\ f \in inflight
  /\ f.pc \in {"remote", "json"}
  /\ error' = "network"
  /\ loading' = FlagReset(loading)
  /\ refreshing' = FlagReset(refreshing)
  /\ FailureKeepsData
  /\ Returns(f, "network", f.connected, 0, FailureToast("network", 0))
  /\ UNCHANGED <<search, debounceTimer, storeQ, store, sinceEdit, cntVars, filterVars>>

\* The search the success branch filters by: the `search` of the render
\* that created this fetchPosts closure.
SearchOfClosure(f) == f.search

\* The debounce effect depends on [search, posts]: setPosts(data) makes it
\* run again with the new posts.
TimerAfterSetPostsKept(timer, s, data) == timer
TimerAfterSetPosts(timer, s, data) == DebounceEffect(s, data)

\* response.json() resolves: setPosts(data); setError(""); the filter;
\* setFilteredPosts(initial); `finally`. posts changed, so the debounce
\* effect runs again.
JsonDecoded(f, data) ==
  /\ f \in inflight
  /\ f.pc = "json"
  /\ posts' = data
  /\ error' = ""
  /\ filteredPosts' = FilterPosts(data, SearchOfClosure(f))
  /\ loading' = FlagReset(loading)
  /\ refreshing' = FlagReset(refreshing)
  /\ debounceTimer' = TimerAfterSetPosts(debounceTimer, search, data)
  /\ Returns(f, "success", f.connected, 200, NoToast)
  /\ UNCHANGED <<search, storeQ, store, sinceEdit, cntVars, filterVars>>

\* ------------------------------------------------------------ teardown
\* the cleanup of the debounce effect: clearTimeout(debounceTimer.current)
CleanupMissing(timer) == timer
Cleanup(timer) == NoTimer

\* the setItem calls among the pending storage operations
RECURSIVE Writes(_)
Writes(q) ==
  IF q = <<>> THEN <<>>
  ELSE IF Head(q).op = "set" THEN <<Head(q)>> \o Writes(Tail(q))
  ELSE Writes(Tail(q))

\* The component is unmounted while the JavaScript runtime lives on: the
\* effect cleanup runs and the component state is discarded. The pending
\* continuations of loadSaved and fetchPosts only set state of the unmounted
\* component, which has no effect, so they are dropped; the setItem calls
\* already issued still reach the storage.
Unmount ==
  /\ mounted
  /\ mounted' = FALSE
  /\ debounceTimer' = Cleanup(debounceTimer)
  /\ storeQ' = Writes(storeQ)
  /\ inflight' = {}
  /\ lastDone' = NotDone
  /\ posts' = <<>>
  /\ filteredPosts' = <<>>
  /\ search' = Empty
  /\ loading' = TRUE
  /\ refreshing' = FALSE
  /\ error' = ""
  /\ UNCHANGED <<store, sinceEdit, nFetch, nEdits, nSessions, filterVars>>

\* ------------------------------------------------------------ restart
RECURSIVE Served(_, _, _)
\* the stored item after the first k pending operations were served
Served(item, q, k) ==
  IF k = 0 \/ q = <<>> THEN item
  ELSE Served(IF Head(q).op = "set" THEN Stored(Head(q).search) ELSE item,
              Tail(q), k - 1)

\* The application is closed (if it was still mounted) and opened again:
\* the component state, the timer and every pending continuation are gone;
\* the pending setItem calls that reached the storage before the end have
\* landed. The new session mounts as in Init.
Restart ==
  /\ nSessions < MaxSessions
  /\ nFetch < MaxFetch
  /\ \E k \in 0..Len(storeQ) : store' = Served(store, storeQ, k)
  /\ posts' = <<>>
  /\ filteredPosts' = <<>>
  /\ search' = Empty
  /\ loading' = TRUE
  /\ refreshing' = FALSE
  /\ error' = ""
  /\ debounceTimer' = DebounceEffect(Empty, <<>>)
  /\ storeQ' = <<GetItem>>
  /\ inflight' = {MountFetch(nFetch + 1)}
  /\ lastDone' = NotDone
  /\ sinceEdit' = -1
  /\ nFetch' = nFetch + 1
  /\ nSessions' = nSessions + 1
  /\ mounted' = TRUE
  /\ UNCHANGED <<nEdits, filterVars>>

\* ------------------------------------------------------------ Spec
Next ==
  \/ \E q \in Queries : EditSearch(q)
  \/ Tick
  \/ TimerFires
  \/ SetItemDone
  \/ GetItemDone
  \/ Retry
  \/ OnRefresh
  \/ \E f \in inflight, connected \in BOOLEAN : ProbeResolves(f, connected)
  \/ \E f \in inflight : ResponseOk(f)
  \/ \E f \in inflight, status \in BadStatus : ResponseNotOk(f, status)
  \/ \E f \in inflight : Rejected(f)
  \/ \E f \in inflight, data \in Payloads : JsonDecoded(f, data)
  \/ Unmount
  \/ Restart

Spec == Init /\ [][Next]_vars

\* the same program, started with a stored search text
SpecStored == InitStored /\ [][Next]_vars

\* ------------------------------------------------------------ the filter alone
\* Titles and queries the filter is tried on, over the letters a, A, b, B.
FilterTitles ==
  {<<>>, <<"a">>, <<"B">>, <<"A", "b">>, <<"b", "A">>, <<"a", "a", "B">>}
FilterQueries ==
  {<<>>, <<"a">>, <<"A">>, <<"a", "B">>, <<"b", "a">>, <<"b", "b">>}
\* collections of at most MaxLen posts, ids 1, 2, ... in order
FilterCollections ==
  UNION {{[i \in 1..n |-> Post(i, ts[i])] : ts \in [1..n -> FilterTitles]} :
           n \in 0..MaxLen}

InitFilter ==
  /\ posts = <<>>
  /\ filteredPosts = <<>>
  /\ search = Empty
  /\ loading = TRUE
  /\ refreshing = FALSE
  /\ error = ""
  /\ debounceTimer = NoTimer
  /\ storeQ = <<>>
  /\ store = Absent
  /\ inflight = {}
  /\ lastDone = NotDone
  /\ sinceEdit = -1
  /\ nFetch = 0
  /\ nEdits = 0
  /\ nSessions = 0
  /\ mounted = FALSE
  /\ fC \in FilterCollections
  /\ fQ \in FilterQueries
  /\ fR = NotApplied

\* posts.filter(...) applied to fC and fQ
ApplyFilter ==
  /\ ~fR.done
  /\ fR' = [done |-> TRUE, out |-> FilterPosts(fC, fQ)]
  /\ UNCHANGED <<appVars, envVars, cntVars, fC, fQ>>

NextFilter == ApplyFilter

SpecFilter == InitFilter /\ [][NextFilter]_vars

\* ------------------------------------------------------------ properties
Failures == {"offline", "server", "network"}

\* the step in which a fetchPosts invocation returns
FetchReturns == lastDone'.id # lastDone.id /\ lastDone'.outcome # "none"

\* the application stays open in this step
SameSession == nSessions' = nSessions /\ mounted /\ mounted'

\* a debounced callback has started and not finished
CallbackRunning == \E i \in 1..Len(storeQ) : storeQ[i].op = "set"

\* The rendered triggers exclude each other's invocations: Retry and the
\* list's onRefresh exist only while loading is false, and an invocation
\* keeps loading true until it returns.
AtMostOneInFlight == Cardinality(inflight) <= 1

\* C2. Offline short-circuit: fetch() is called only in an invocation whose
\* probe answered connected; an invocation whose probe answered not connected
\* returns without having called fetch(), by the offline branch, and leaves
\* error = "offline".
C2_OfflineShortCircuit ==
  /\ \A f \in inflight :
       /\ f.called => f.connected
       /\ f.pc \in {"remote", "json"} => f.called
       /\ f.pc = "probe" => ~f.called
  /\ lastDone.outcome # "none" =>
       /\ lastDone.called => lastDone.connected
       /\ ~lastDone.connected =>
            /\ ~lastDone.called
            /\ lastDone.outcome = "offline"
            /\ inflight = {} => error = "offline"
       /\ lastDone.outcome = "offline" => ~lastDone.connected

C2_Witness ==
  /\ lastDone.outcome = "offline"
  /\ lastDone.trigger = "retry"
  /\ ~lastDone.called
  /\ error = "offline"

\* the letters that differ only in case
CasePairs == {<<"a", "A">>, <<"b", "B">>}
SameLetter(x, y) == x = y \/ <<x, y>> \in CasePairs \/ <<y, x>> \in CasePairs
\* q occurs in title at some offset, letter by letter, ignoring case
ContainsIgnoringCase(title, q) ==
  \E off \in 0..(Len(title) - Len(q)) :
     \A j \in 1..Len(q) : SameLetter(title[off + j], q[j])
\* r is c restricted to the positions whose title contains q, in c's order
IsSubsequenceOfMatches(r, c, q) ==
  LET keep == {i \in 1..Len(c) : ContainsIgnoringCase(c[i].title, q)}
  IN /\ Len(r) = Cardinality(keep)
     /\ \A i \in keep : r[Cardinality({j \in keep : j < i}) + 1] = c[i]

\* C5. Filter correctness: the result is exactly the subsequence of the
\* collection whose titles contain the query ignoring case, in the
\* collection's order; for the empty query it is the collection.
C5_FilterCorrect ==
  fR.done =>
    /\ IsSubsequenceOfMatches(fR.out, fC, fQ)
    /\ fQ = Empty => fR.out = fC

C5_Witness ==
  /\ fR.done
  /\ Len(fC) = 2
  /\ fQ = <<"a", "B">>
  /\ fR.out = <<fC[2]>>
  /\ fC[2].title = <<"A", "b">>

\* C9. Notification count: an invocation that returned by a failure branch
\* showed exactly one toast, of that failure's kind; one that returned by
\* success showed none.
C9_OneToastPerFailure ==
  /\ lastDone.outcome \in Failures =>
       /\ Len(lastDone.toasts) = 1
       /\ lastDone.toasts[1].kind = lastDone.outcome
  /\ lastDone.outcome = "success" => lastDone.toasts = <<>>

C9_Witness ==
  /\ lastDone.outcome = "network"
  /\ lastDone.trigger = "pull"
  /\ Len(lastDone.toasts) = 1

\* C10. In-flight flags are reset: once the invocation has returned, by any
\* branch, loading and refreshing are false, and the view then rendered
\* offers a trigger (Retry or pull-to-refresh) that starts the next one.
C10_FlagsReset ==
  (mounted /\ inflight = {}) =>
    /\ ~loading
    /\ ~refreshing
    /\ nFetch < MaxFetch => ENABLED (Retry \/ OnRefresh)

C10_Witness ==
  /\ lastDone.outcome = "offline"
  /\ lastDone.trigger = "pull"
  /\ inflight = {}
  /\ ~loading
  /\ ~refreshing

\* the step in which the timeout callback starts and issues its setItem
WriteIssued == SameSession /\ Len(storeQ') = Len(storeQ) + 1
\* the setItem that step issued
IssuedWrite == storeQ'[Len(storeQ')]

\* no write is issued, none lands and the list shown is not recomputed
NothingWritten ==
  /\ Len(storeQ') <= Len(storeQ)
  /\ store' = store
  /\ filteredPosts' = filteredPosts

C4_ViewConsistent ==
  (~debounceTimer.on /\ ~CallbackRunning) =>
     filteredPosts = FilterPosts(posts, search)

C4_Witness ==
  /\ ~debounceTimer.on
  /\ ~CallbackRunning
  /\ nEdits >= 1
  /\ search = Alpha
  /\ posts = DataA
  /\ filteredPosts = <<P1>>
  /\ lastDone.outcome = "success"

\* C6 as stated. On a successful fetch the list shown is the filter of the
\* new posts by the search text at the moment the fetch completes.
C6_FilterUsesCurrentQuery ==
  [][(FetchReturns /\ lastDone'.outcome = "success") =>
        filteredPosts' = FilterPosts(posts', search')]_vars

\* the read of loadSaved is pending / is served in this step
LoadPending == storeQ # <<>> /\ Head(storeQ).op = "get"
LoadResolves == LoadPending /\ storeQ' = Tail(storeQ)

\* C7. Restart round trip: in a session, nothing alters the stored text
\* before the read of loadSaved is served, and when it is served with a
\* non-empty stored text, that text becomes the search text.
C7_RestartRoundTrip ==
  [][(SameSession /\ LoadPending) =>
       /\ store' = store
       /\ (LoadResolves /\ Truthy(store)) => search' = store.value]_vars

\* the second session has read the "alpha" the first session's timer wrote
C7_Witness ==
  /\ nSessions = 2
  /\ nEdits = 1
  /\ store = Stored(Alpha)
  /\ storeQ = <<>>
  /\ search = Alpha
  /\ sinceEdit = 0
  /\ debounceTimer.on /\ debounceTimer.age = 0

Started == {g \in inflight' : \A f \in inflight : f.id # g.id}

\* C11. No automatic retry: as long as the last invocation to return ended
\* in a failure and nothing has been triggered since, no invocation is in
\* flight, error stays that failure's kind and the loading flag is off; and
\* in a session an invocation is started only by a press of Retry or a pull
\* of the list, controls that are rendered while nothing is loading (Retry
\* alone once there is an error) -- never by a step in which time passes,
\* the debounce timer fires, a storage call resolves, the search text
\* changes or another invocation returns.
C11_NoAutomaticRetry ==
  /\ []((mounted /\ lastDone.outcome \in Failures) =>
          /\ inflight = {}
          /\ error = lastDone.outcome
          /\ ~loading)
  /\ [][(SameSession /\ Started # {}) =>
          /\ ~loading
          /\ \A g \in Started :
                /\ g.pc = "probe"
                /\ g.trigger \in {"retry", "pull"}
                /\ g.trigger = "retry" <=> error \in Failures
          /\ lastDone'.id = 0
          /\ search' = search
          /\ debounceTimer' = debounceTimer
          /\ storeQ' = storeQ
          /\ store' = store]_vars

\* the only invocation of the session failed offline; two edits, the firing
\* of the timer and the write have left it at that
C11_Witness ==
  /\ mounted
  /\ lastDone.outcome = "offline"
  /\ error = "offline"
  /\ inflight = {}
  /\ nFetch = 1
  /\ nEdits = 2
  /\ search = Bet
  /\ store = Stored(Bet)
  /\ storeQ = <<>>
  /\ ~debounceTimer.on

\* the invocation was started by a pull of a list that shows a collection
PullWithCollection(f) == f.trigger = "pull" /\ posts # <<>>

\* C12 as stated. Status on pull refresh: while an invocation started by a
\* pull of the list is in flight and a collection exists, refreshing is true
\* and loading is false; while any other invocation is in flight, loading
\* is true and refreshing is false.
C12_StatusOnPull ==
  \A f \in inflight :
     IF PullWithCollection(f)
     THEN refreshing /\ ~loading
     ELSE loading /\ ~refreshing

\* C13. Teardown cancels the debounce: once the component is unmounted no
\* debounce timer is pending, and as long as it stays unmounted no setItem
\* is issued and the list shown is not updated (the writes issued before
\* the teardown may still reach the storage).
C13_TeardownCancels ==
  /\ [](~mounted => ~debounceTimer.on)
  /\ [][~mounted' =>
          /\ Len(storeQ') <= Len(storeQ)
          /\ ~mounted => filteredPosts' = filteredPosts]_vars

\* unmounted 200 ms after an edit, before the timer of that edit fired:
\* nothing has been written
C13_Witness ==
  /\ ~mounted
  /\ nEdits = 1
  /\ sinceEdit = 2
  /\ storeQ = <<>>
  /\ store = Absent

\* C14. No failure is terminal: error is empty from the start of every
\* invocation for as long as it is in flight; in every failed state with
\* nothing in flight Retry can be pressed; and an invocation whose probe
\* answered connected and whose call succeeded returns with error empty,
\* posts replaced by a decoded payload and both flags off.
C14_NoFailureTerminal ==
  /\ []((mounted /\ inflight # {}) => error = "")
  /\ []((mounted /\ inflight = {} /\ error \in Failures /\ nFetch < MaxFetch) =>
          ENABLED Retry)
  /\ [][(FetchReturns /\ lastDone'.outcome = "success") =>
          /\ lastDone'.connected /\ lastDone'.called
          /\ error' = ""
          /\ posts' \in Payloads
          /\ ~loading' /\ ~refreshing']_vars

\* the mount fetch failed, Retry was pressed and that invocation succeeded
C14_Witness ==
  /\ lastDone.outcome = "success"
  /\ lastDone.trigger = "retry"
  /\ nSessions = 1
  /\ error = ""
  /\ posts = DataB
  /\ ~loading

\* a pending setItem is served in this step
WriteLands == storeQ # <<>> /\ Head(storeQ).op = "set" /\ storeQ' = Tail(storeQ)
\* the storage holds no text or the empty text
NothingSaved == ~store.present \/ store.value = Empty
\* the invocation that returns in this step
Returning == CHOOSE f \in inflight : f.id = lastDone'.id

\* C15. The empty query is first-class: a timer that fires while the search
\* text is empty issues a setItem of the empty text, and a setItem of the
\* empty text leaves the empty text stored; when the read of loadSaved is
\* served and the storage holds no text or the empty text, the search text
\* is left as it is (empty, unless the user has typed meanwhile); and an
\* invocation started while the search text was empty shows, on success,
\* the whole collection it fetched.
C15_EmptyQueryFirstClass ==
  [][SameSession =>
       /\ (WriteIssued /\ search = Empty) => IssuedWrite.search = Empty
       /\ (WriteLands /\ Head(storeQ).search = Empty) => store' = Stored(Empty)
       /\ (LoadResolves /\ NothingSaved) => search' = search
       /\ (FetchReturns /\ lastDone'.outcome = "success" /\ Returning.search = Empty) =>
            filteredPosts' = posts']_vars

\* a second session, two edits made, with the empty text stored and read:
\* the search text is empty and the fetch shows both posts
C15_Witness ==
  /\ mounted
  /\ nSessions = 2
  /\ nEdits = 2
  /\ store = Stored(Empty)
  /\ storeQ = <<>>
  /\ search = Empty
  /\ lastDone.outcome = "success"
  /\ posts = DataA
  /\ filteredPosts = DataA

\* the timer a run of the debounce effect leaves in this step
FreshTimer == [on |-> TRUE, search |-> search', posts |-> posts', age |-> 0]
\* the search text changes / a successful fetch replaces the posts
QueryMutated == search' # search
PostsReplaced == FetchReturns /\ lastDone'.outcome = "success"

EditedBeforeLoad == LoadPending /\ (search # Empty \/ sinceEdit # -1)

\* C17 as stated. The load at mount never overwrites a search text the
\* user has already edited: when the read of loadSaved is served after the
\* user changed the search text, the search text stays the user's.
C17_LoadKeepsUserEdit ==
  [][(SameSession /\ EditedBeforeLoad /\ LoadResolves) => search' = search]_vars

\* the stored search text, none counting as the empty text
StoredText == IF store.present THEN store.value ELSE Empty

\* With no timer pending and no setItem pending, the stored text is the
\* search text.
PersistedAtRest ==
  (mounted /\ ~debounceTimer.on /\ ~CallbackRunning) => store = Stored(search)

\* C18 as stated, for runs started with "alpha" stored. The persisted value
\* tracks the query: once the timers have fired and the writes have landed
\* the stored text is the search text; and as long as the user has made no
\* edit, whenever the session may end, the stored text is the one the
\* session started with.
C18_PersistedTracksQuery ==
  /\ PersistedAtRest
  /\ nEdits = 0 => StoredText = Alpha

\* C19. Status reflects in-flight work: whenever an invocation of
\* fetchPosts has started and not yet returned, loading or refreshing is
\* true. (Invocations never overlap: AtMostOneInFlight.)
C19_StatusReflectsInFlight ==
  (mounted /\ inflight # {}) => (loading \/ refreshing)

\* a retry pressed after a failure is waiting for the response
C19_Witness ==
  /\ mounted
  /\ \E f \in inflight : f.trigger = "retry" /\ f.pc = "remote"
  /\ loading
  /\ ~refreshing

====
